---- MODULE Spec2Model ----
(***************************************************************************)
(* MedInsight: the Object-Store Navigator (pages/Docs.jsx, second and      *)
(* current variant, lines 245-1153) together with the Settings page        *)
(* (pages/Settings.jsx) that shares its persisted preferences.             *)
(*                                                                         *)
(* Strings are sequences of one-character strings, so that split, join,    *)
(* trim, replace and the default Array.sort order are computed the way     *)
(* the JavaScript computes them.  localStorage keys are variables; an      *)
(* absent key is Null.                                                     *)
(***************************************************************************)
EXTENDS Integers, Sequences, FiniteSets, TLC

(***************************************************************************)
(* Bounds                                                                  *)
(***************************************************************************)
\* largest number of listing requests outstanding at once, per specification
MaxInflight == 2
MaxInflightView == 1
MaxInflightPrefs == 1
\* the longest remembered folder path, in segments
MaxSegments == 3
\* the most objects a bucket holds when its contents are drawn
MaxObjects == 2

(***************************************************************************)
(* Strings                                                                 *)
(***************************************************************************)
\* an absent localStorage key holding a string; no string equals it
Null == <<"null">>
\* an absent localStorage key holding a flag
Absent == "absent"

SEP == "/"
COMMA == ","
SPACE == " "
EMPTY == << >>

\* UTF-16 code unit of the characters that occur in the model
Code(c) ==
  CASE c = " " -> 32
    [] c = "," -> 44
    [] c = "/" -> 47
    [] c = "A" -> 65
    [] c = "a" -> 97
    [] c = "b" -> 98
    [] c = "c" -> 99
    [] c = "x" -> 120

\* String.prototype.toLowerCase, one character
LowerChar(c) == IF c = "A" THEN "a" ELSE c

ToLower(s) == [i \in 1..Len(s) |-> LowerChar(s[i])]

RECURSIVE TrimLeft(_)
TrimLeft(s) ==
  IF s # EMPTY /\ Head(s) = SPACE THEN TrimLeft(Tail(s)) ELSE s

RECURSIVE TrimRight(_)
TrimRight(s) ==
  IF s # EMPTY /\ s[Len(s)] = SPACE THEN TrimRight(SubSeq(s, 1, Len(s) - 1)) ELSE s

\* String.prototype.trim
Trim(s) == TrimRight(TrimLeft(s))

StartsWith(s, p) == Len(p) <= Len(s) /\ SubSeq(s, 1, Len(p)) = p

EndsWith(s, p) == Len(p) <= Len(s) /\ SubSeq(s, Len(s) - Len(p) + 1, Len(s)) = p

\* String.prototype.indexOf, 1-based; 0 when absent
IndexOf(s, p) ==
  LET hits == {i \in 1..(Len(s) - Len(p) + 1) : SubSeq(s, i, i + Len(p) - 1) = p}
  IN  IF Len(p) > Len(s) THEN 0
      ELSE IF hits = {} THEN 0
      ELSE CHOOSE i \in hits : \A j \in hits : i <= j

\* String.prototype.includes
Includes(s, p) == p = EMPTY \/ IndexOf(s, p) > 0

\* String.prototype.replace(p, ""): removes the first occurrence of p
ReplaceFirst(s, p) ==
  LET i == IndexOf(s, p)
  IN  IF p = EMPTY \/ i = 0 THEN s
      ELSE SubSeq(s, 1, i - 1) \o SubSeq(s, i + Len(p), Len(s))

\* String.prototype.split(d) for a one-character delimiter
RECURSIVE SplitAcc(_, _, _)
SplitAcc(s, d, cur) ==
  IF s = EMPTY THEN <<cur>>
  ELSE IF Head(s) = d THEN <<cur>> \o SplitAcc(Tail(s), d, EMPTY)
  ELSE SplitAcc(Tail(s), d, Append(cur, Head(s)))

Split(s, d) == SplitAcc(s, d, EMPTY)

\* Array.prototype.join(d)
RECURSIVE Join(_, _)
Join(parts, d) ==
  IF parts = << >> THEN EMPTY
  ELSE IF Len(parts) = 1 THEN parts[1]
  ELSE parts[1] \o <<d>> \o Join(Tail(parts), d)

\* Array.prototype.filter(Boolean) on strings: drops the empty ones
RECURSIVE FilterNonEmpty(_)
FilterNonEmpty(parts) ==
  IF parts = << >> THEN << >>
  ELSE IF Head(parts) = EMPTY THEN FilterNonEmpty(Tail(parts))
  ELSE <<Head(parts)>> \o FilterNonEmpty(Tail(parts))

MapTrim(parts) == [i \in 1..Len(parts) |-> Trim(parts[i])]

\* order of the default Array.prototype.sort(): by UTF-16 code units
RECURSIVE StrLess(_, _)
StrLess(s, t) ==
  IF t = EMPTY THEN FALSE
  ELSE IF s = EMPTY THEN TRUE
  ELSE IF Code(Head(s)) < Code(Head(t)) THEN TRUE
  ELSE IF Code(Head(s)) > Code(Head(t)) THEN FALSE
  ELSE StrLess(Tail(s), Tail(t))

\* Array.from(set).sort(): the elements of a Set of strings in code-unit order
SortStrings(S) ==
  LET below == [x \in S |-> Cardinality({y \in S : StrLess(y, x)})]
  IN  [k \in 1..Cardinality(S) |-> CHOOSE x \in S : below[x] = k - 1]

Range(seq) == {seq[i] : i \in 1..Len(seq)}

(***************************************************************************)
(* The object store and its list query (external interface, spec section 6)*)
(***************************************************************************)
\* lastModified 0 stands for an entry without a LastModified element
Obj(k, sz, lm) == [key |-> k, size |-> sz, lastModified |-> lm]

\* the objects of the bucket; the Navigator only reads them
VARIABLE bucket

\* a bucket with a folder marker, files two levels deep, a folder whose name
\* holds a comma, and a file lying directly at root
BucketDocs ==
  { Obj(<<"a", "/">>, 0, 5),
    Obj(<<"a", "/", "x">>, 3, 2),
    Obj(<<"a", "/", "a", "x">>, 1, 3),
    Obj(<<"a", "/", "x", "a">>, 2, 1),
    Obj(<<"a", "/", "b", "/", "x">>, 1, 4),
    Obj(<<"b", ",", "c", "/", "x">>, 2, 6),
    Obj(<<"x">>, 1, 0) }

\* a bucket with one folder, whose name holds a comma
BucketSmall == { Obj(<<"a", ",", "b", "/", "x">>, 1, 1) }

\* a bucket whose folder "a/" holds files of equal size and of equal date,
\* and whose root holds a file without LastModified next to a dated one
BucketSort ==
  { Obj(<<"a", "/", "x">>, 1, 1),
    Obj(<<"a", "/", "a", "x">>, 1, 2),
    Obj(<<"a", "/", "x", "a">>, 2, 2),
    Obj(<<"b">>, 1, 3),
    Obj(<<"x">>, 2, 0) }

KeyRest(o, p) == SubSeq(o.key, Len(p) + 1, Len(o.key))

\* GET ?list-type=2&delimiter=/&prefix=p : keys under p, those with a
\* further delimiter grouped into CommonPrefixes, both in key order
S3List(p) ==
  LET under   == {o \in bucket : StartsWith(o.key, p)}
      grouped == {o \in under : IndexOf(KeyRest(o, p), <<SEP>>) > 0}
      cpOf(o) == p \o SubSeq(KeyRest(o, p), 1, IndexOf(KeyRest(o, p), <<SEP>>))
      keys    == SortStrings({o.key : o \in under \ grouped})
  IN  [ cps      |-> SortStrings({cpOf(o) : o \in grouped}),
        contents |-> [i \in 1..Len(keys) |->
                        CHOOSE o \in bucket : o.key = keys[i]] ]

\* a 200 response whose body holds no CommonPrefixes and no Contents element
\* (DOMParser does not throw on an unparsable body)
NoStructure == [cps |-> << >>, contents |-> << >>]

(***************************************************************************)
(* Docs.jsx: pure functions                                                *)
(***************************************************************************)
\* parentPrefix without parts.pop()
parentPrefix_NoPop(pfx) ==
  IF pfx = EMPTY THEN EMPTY
  ELSE LET parts == FilterNonEmpty(Split(pfx, SEP))
       IN  IF Len(parts) > 0 THEN Join(parts, SEP) \o <<SEP>> ELSE EMPTY

\* parentPrefix(pfx): split("/").filter(Boolean), pop, join("/") + "/"
parentPrefix(pfx) ==
  IF pfx = EMPTY THEN EMPTY
  ELSE LET parts == FilterNonEmpty(Split(pfx, SEP))
           rest  == IF parts = << >> THEN << >> ELSE SubSeq(parts, 1, Len(parts) - 1)
       IN  IF Len(rest) > 0 THEN Join(rest, SEP) \o <<SEP>> ELSE EMPTY

RECURSIVE DropMarkers(_)
DropMarkers(fs) ==
  IF fs = << >> THEN << >>
  ELSE IF EndsWith(Head(fs).key, <<SEP>>) /\ Head(fs).size = 0
       THEN DropMarkers(Tail(fs))
       ELSE <<Head(fs)>> \o DropMarkers(Tail(fs))

\* listS3, from the parsed response document on: the trimmed non-empty
\* Prefix texts, and the Contents records without folder markers
\* (the derived url field is not modelled)
listS3(doc) ==
  [ folders |-> FilterNonEmpty(MapTrim(doc.cps)),
    files   |-> DropMarkers([i \in 1..Len(doc.contents) |->
                  Obj(Trim(doc.contents[i].key), doc.contents[i].size,
                      doc.contents[i].lastModified)]) ]

\* the segment before the first "/" : s.split("/")[0]
TopSegment(s) == Split(s, SEP)[1]

\* (localStorage.getItem(LS.knownPrefixes) || "").split(",").map(trim).filter(Boolean)
OrEmpty(stored) == IF stored = Null THEN EMPTY ELSE stored

ReadKnown(stored) == FilterNonEmpty(MapTrim(Split(OrEmpty(stored), COMMA)))

\* the entries load() adds: top segment of pfx, of each folder, of each file key
TopOf(s) == IF TopSegment(s) # EMPTY THEN {TopSegment(s) \o <<SEP>>} ELSE {}

Remembered(pfx, fo, fi) ==
  (IF pfx # EMPTY THEN TopOf(pfx) ELSE {})
    \cup UNION {TopOf(fo[i]) : i \in 1..Len(fo)}
    \cup UNION {TopOf(fi[i].key) : i \in 1..Len(fi)}

\* MergeKnown with the Set built from the new entries alone
MergeKnown_Fresh(stored, pfx, fo, fi) ==
  Join(SortStrings(Remembered(pfx, fo, fi)), COMMA)

\* the value load() stores under LS.knownPrefixes
MergeKnown(stored, pfx, fo, fi) ==
  Join(SortStrings(Range(ReadKnown(stored)) \cup Remembered(pfx, fo, fi)), COMMA)

\* String.prototype.localeCompare on the model's characters: letters
\* compare without case first, then lower case before upper case
RECURSIVE CodeCmp(_, _)
CodeCmp(s, t) ==
  IF s = EMPTY /\ t = EMPTY THEN 0
  ELSE IF s = EMPTY THEN -1
  ELSE IF t = EMPTY THEN 1
  ELSE IF Code(Head(s)) < Code(Head(t)) THEN -1
  ELSE IF Code(Head(s)) > Code(Head(t)) THEN 1
  ELSE CodeCmp(Tail(s), Tail(t))

localeCompare(s, t) ==
  LET c == CodeCmp(ToLower(s), ToLower(t))
  IN  IF c # 0 THEN c ELSE -CodeCmp(s, t)

\* Array.prototype.sort(cmp) is stable: an element goes behind the elements
\* that compare smaller and behind the earlier elements that compare equal;
\* c[j][i] is cmp(list[j], list[i])
SortBy(list, c) ==
  LET n == Len(list)
      rank == [i \in 1..n |-> 1 + Cardinality({j \in 1..n :
                 \/ c[j][i] < 0
                 \/ j < i /\ c[j][i] = 0})]
  IN  [k \in 1..n |-> list[CHOOSE i \in 1..n : rank[i] = k]]

Max(a, b) == IF a >= b THEN a ELSE b
Min(a, b) == IF a <= b THEN a ELSE b
\* Math.ceil(n / d) for n >= 0, d >= 1
CeilDiv(n, d) == (n + d - 1) \div d

(***************************************************************************)
(* State                                                                   *)
(***************************************************************************)
VARIABLES
  route,          \* the mounted page: "docs" or "settings"
  \* Docs component state (useState)
  prefix, folders, files, loading, err,
  filter, sortKey, sortDir, page,
  knownPrefixes,  \* the useMemo value, recomputed when prefix changes
  \* listing requests awaiting their response
  inflight,       \* prefixes requested by the mounted Docs, oldest first
  orphans,        \* prefixes requested by a Docs that has been unmounted
  latestPfx,      \* history: the prefix of the latest load() of the mounted Docs
  latestOutcome,  \* history: that load() is "pending", or ended "ok" or "failed"
  cap,            \* the number of requests that may be outstanding at once
  \* localStorage
  lsLastPrefix, lsKnown, lsDefaultPrefix, lsItemsPerPage, lsRememberLast,
  \* Settings component state (useState); theme and showSizes are left out
  sStartMode, sDefaultPrefix, sItemsPerPage, sRememberLast,
  sAvailable, sLoadingFolders,
  \* Docs preview drawer (useState) and its summary requests
  drawerFile,     \* the file open in the drawer, or NoFile
  drawerLoading, drawerError, drawerSummary,
  summaryReqs,    \* keys whose summary fetch awaits its response, oldest first
  drawerFrom,     \* history: the key whose response set the summary or error
  \* Chat component state (useState); loading is never set and is left out
  q,              \* the text of the question input
  chatHistory,    \* the messages, oldest first
  selectedPdf,    \* the document open in the preview: Closed, or url and page
  streams,        \* the number of event streams of sendQuery still open
  previewed,      \* history: the sources of the answer whose link opened the preview
  rendered        \* history: the latest call of customTextRenderer and its result

docsVars == <<prefix, folders, files, loading, err, filter, sortKey, sortDir,
              page, knownPrefixes>>
viewVars == <<filter, sortKey, sortDir, page>>
reqVars == <<inflight, orphans, latestPfx, latestOutcome, cap, bucket>>
prefVars == <<lsDefaultPrefix, lsItemsPerPage, lsRememberLast>>
lsVars == <<lsLastPrefix, lsKnown, lsDefaultPrefix, lsItemsPerPage, lsRememberLast>>
setVars == <<sStartMode, sDefaultPrefix, sItemsPerPage, sRememberLast,
             sAvailable, sLoadingFolders>>
chatVars == <<q, chatHistory, selectedPdf, streams, previewed, rendered>>
drawerVars == <<drawerFile, drawerLoading, drawerError, drawerSummary,
                summaryReqs, drawerFrom>>
navVars == <<route, docsVars, reqVars, lsVars, setVars, drawerVars>>
vars == <<navVars, chatVars>>

ErrMsg == "Failed to load from S3"

\* the filter texts a user types
Filters == {EMPTY, <<"A">>}
SortKeys == {"name", "size", "date"}
SortDirs == {"asc", "desc"}

(***************************************************************************)
(* Docs.jsx: values derived at render                                      *)
(***************************************************************************)
DefaultRows == 50
MaxRows == 500

rememberLast == (IF lsRememberLast = Absent THEN "true" ELSE lsRememberLast) = "true"

defaultPrefixPref == OrEmpty(lsDefaultPrefix)

\* lsItemsPerPage 0 stands for the absent key
rowsPerPage ==
  Max(1, Min(MaxRows, IF lsItemsPerPage = 0 THEN DefaultRows ELSE lsItemsPerPage))

initialPrefix ==
  IF rememberLast
  THEN (IF lsLastPrefix # Null THEN lsLastPrefix ELSE defaultPrefixPref)
  ELSE defaultPrefixPref

\* the quick-access list computed by the knownPrefixes memo
KnownPrefixesOf(stored, pfx, dflt) ==
  LET set == Range(ReadKnown(stored))
               \cup (IF pfx # EMPTY THEN {TopSegment(pfx) \o <<SEP>>} ELSE {})
               \cup (IF dflt # EMPTY THEN {TopSegment(dflt) \o <<SEP>>} ELSE {})
      l   == SortStrings(set)
  IN  SortBy(l, [j \in 1..Len(l) |-> [i \in 1..Len(l) |-> localeCompare(l[j], l[i])]])

totalPages == Max(1, CeilDiv(Len(files), rowsPerPage))

\* fp.replace(prefix, "").replace(/\/$/, "")
FolderName(fp) ==
  LET n == ReplaceFirst(fp, prefix)
  IN  IF EndsWith(n, <<SEP>>) THEN SubSeq(n, 1, Len(n) - 1) ELSE n

FilterKey == ToLower(Trim(filter))

NameMatches(name) == IF FilterKey # EMPTY THEN Includes(ToLower(name), FilterKey) ELSE TRUE

FolderCmp(a, b) == localeCompare(a.name, b.name)

filteredFolders ==
  LET named == [i \in 1..Len(folders) |->
                  [full |-> folders[i], name |-> FolderName(folders[i])]]
      keep(x) == NameMatches(x.name)
      l == SelectSeq(named, keep)
  IN  SortBy(l, [j \in 1..Len(l) |-> [i \in 1..Len(l) |-> FolderCmp(l[j], l[i])]])

\* the comparator of sortedFilteredFiles with every direction treated as asc
FileCmpBy_DirectionIgnored(key, dir, a, b) ==
  CASE key = "name" -> localeCompare(a.name, b.name)
    [] key = "size" -> a.size - b.size
    [] key = "date" ->
         IF a.lastModified = 0 \/ b.lastModified = 0 THEN 0
         ELSE a.lastModified - b.lastModified

\* the comparator of sortedFilteredFiles for a sort key and direction:
\* new Date(lastModified).getTime() of an absent LastModified is NaN, and a
\* NaN comparison result is taken as 0 by sort
FileCmpBy(key, dir, a, b) ==
  LET cmp == CASE key = "name" -> localeCompare(a.name, b.name)
               [] key = "size" -> a.size - b.size
               [] key = "date" ->
                    IF a.lastModified = 0 \/ b.lastModified = 0 THEN 0
                    ELSE a.lastModified - b.lastModified
  IN  IF dir = "asc" THEN cmp ELSE -cmp

FileCmp(a, b) == FileCmpBy(sortKey, sortDir, a, b)

\* the files with their display names, filtered
FilteredFiles ==
  LET named == [i \in 1..Len(files) |->
                  [key |-> files[i].key, size |-> files[i].size,
                   lastModified |-> files[i].lastModified,
                   name |-> ReplaceFirst(files[i].key, prefix)]]
      keep(x) == NameMatches(x.name)
  IN  SelectSeq(named, keep)

\* the projection for a sort key and direction
SortedFilteredBy(key, dir) ==
  LET l == FilteredFiles
  IN  SortBy(l, [j \in 1..Len(l) |-> [i \in 1..Len(l) |-> FileCmpBy(key, dir, l[j], l[i])]])

sortedFilteredFiles == SortedFilteredBy(sortKey, sortDir)

\* Array.prototype.slice(start, end)
Slice(list, start, end) ==
  SubSeq(list, Min(start, Len(list)) + 1, Min(end, Len(list)))

pagedFiles ==
  LET start == (page - 1) * rowsPerPage
  IN  Slice(sortedFilteredFiles, start, start + rowsPerPage)

crumbs ==
  LET parts == FilterNonEmpty(Split(prefix, SEP))
  IN  <<EMPTY>> \o [i \in 1..Len(parts) |-> Join(SubSeq(parts, 1, i), SEP) \o <<SEP>>]

Outstanding == Len(inflight) + Len(orphans)

\* the sequence without its i-th element
RemoveAt(seq, i) == SubSeq(seq, 1, i - 1) \o SubSeq(seq, i + 1, Len(seq))

(***************************************************************************)
(* Docs.jsx: load()                                                        *)
(***************************************************************************)
\* load(pfx) up to its await: setLoading(true), setErr(""), request sent
StartLoad(pfx) ==
  /\ route = "docs"
  /\ Outstanding < cap
  /\ loading' = TRUE
  /\ err' = ""
  /\ inflight' = Append(inflight, pfx)
  /\ latestPfx' = pfx
  /\ latestOutcome' = "pending"
  /\ UNCHANGED <<route, prefix, folders, files, viewVars, knownPrefixes,
                 orphans, cap, bucket, chatVars, drawerVars, lsVars, setVars>>

\* the i-th outstanding request is the latest one made by the mounted Docs
\* (requests are kept oldest first)
Latest(i) == latestOutcome = "pending" /\ i = Len(inflight)

\* load(pfx) after listS3 resolved with the document doc: the try block,
\* the finally block, and the re-render that follows (React 18 batches the
\* updates, so the memo reads the prefixes stored by this same call)
LoadResolve(i, doc) ==
  LET pfx == inflight[i]
      r   == listS3(doc)
  IN  /\ route = "docs"
      /\ i \in 1..Len(inflight)
      /\ inflight' = RemoveAt(inflight, i)
      /\ folders' = r.folders
      /\ files' = r.files
      /\ prefix' = pfx
      /\ page' = 1
      /\ lsLastPrefix' = pfx
      /\ lsKnown' = MergeKnown(lsKnown, pfx, r.folders, r.files)
      /\ loading' = FALSE
      /\ knownPrefixes' = IF pfx # prefix
                          THEN KnownPrefixesOf(lsKnown', pfx, defaultPrefixPref)
                          ELSE knownPrefixes
      /\ latestOutcome' = (IF Latest(i) THEN "ok" ELSE latestOutcome)
      /\ latestPfx' = latestPfx
      /\ UNCHANGED <<route, err, filter, sortKey, sortDir, orphans, cap, bucket, chatVars, drawerVars,
                     prefVars, setVars>>

\* the store answers the i-th outstanding request with its listing
LoadOk(i) == LoadResolve(i, S3List(inflight[i]))

\* the store answers the i-th outstanding request with status 200 and a body
\* that is no listing: parseFromString does not throw and no element is found
LoadUnparsed(i) == LoadResolve(i, NoStructure)

\* LoadFail with the catch block also clearing the listing
LoadFail_Blanking(i) ==
  /\ route = "docs"
  /\ i \in 1..Len(inflight)
  /\ err' = ErrMsg
  /\ folders' = << >>
  /\ files' = << >>
  /\ loading' = FALSE
  /\ inflight' = RemoveAt(inflight, i)
  /\ latestOutcome' = (IF Latest(i) THEN "failed" ELSE latestOutcome)
  /\ latestPfx' = latestPfx
  /\ UNCHANGED <<route, prefix, viewVars, knownPrefixes,
                 orphans, cap, bucket, chatVars, drawerVars, lsVars, setVars>>

\* listS3 threw (network error or non-2xx status): catch and finally
LoadFail(i) ==
  /\ route = "docs"
  /\ i \in 1..Len(inflight)
  /\ err' = ErrMsg
  /\ loading' = FALSE
  /\ inflight' = RemoveAt(inflight, i)
  /\ latestOutcome' = (IF Latest(i) THEN "failed" ELSE latestOutcome)
  /\ latestPfx' = latestPfx
  /\ UNCHANGED <<route, prefix, folders, files, viewVars, knownPrefixes,
                 orphans, cap, bucket, chatVars, drawerVars, lsVars, setVars>>

\* a request of an unmounted Docs resolves: its state updates are dropped,
\* its localStorage writes are not
OrphanOk(i) ==
  LET pfx == orphans[i]
      r   == listS3(S3List(pfx))
  IN  /\ i \in 1..Len(orphans)
      /\ orphans' = RemoveAt(orphans, i)
      /\ lsLastPrefix' = pfx
      /\ lsKnown' = MergeKnown(lsKnown, pfx, r.folders, r.files)
      /\ UNCHANGED <<route, docsVars, inflight, latestPfx, latestOutcome, cap, bucket, chatVars, drawerVars, prefVars, setVars>>

OrphanFail(i) ==
  /\ i \in 1..Len(orphans)
  /\ orphans' = RemoveAt(orphans, i)
  /\ UNCHANGED <<route, docsVars, inflight, latestPfx, latestOutcome, cap, bucket, chatVars, drawerVars, lsVars, setVars>>

(***************************************************************************)
(* Docs.jsx: navigation handlers                                           *)
(***************************************************************************)
\* the Default button without its disabled condition
gotoDefault_AlwaysEnabled == StartLoad(defaultPrefixPref)

\* Root button
GoRoot == StartLoad(EMPTY)

\* Default button, disabled when already there
gotoDefault == defaultPrefixPref # prefix /\ StartLoad(defaultPrefixPref)

\* Up button, disabled at root
onUp == prefix # EMPTY /\ StartLoad(parentPrefix(prefix))

onRefresh == StartLoad(prefix)

\* a folder row
onOpenFolder == \E i \in 1..Len(filteredFolders) : StartLoad(filteredFolders[i].full)

\* a breadcrumb link
OpenCrumb == \E i \in 1..Len(crumbs) : StartLoad(crumbs[i])

\* a quick-access entry
QuickAccess == \E i \in 1..Len(knownPrefixes) : StartLoad(knownPrefixes[i])

(***************************************************************************)
(* Docs.jsx: view controls                                                 *)
(***************************************************************************)
\* SetFilter without the setPage(1)
SetFilter_KeepPage(v) ==
  /\ route = "docs"
  /\ v # filter
  /\ filter' = v
  /\ UNCHANGED <<route, prefix, folders, files, loading, err, sortKey, sortDir, page,
                 knownPrefixes, reqVars, chatVars, drawerVars, lsVars, setVars>>

\* the filter input: setFilter(value); setPage(1)
SetFilter(v) ==
  /\ route = "docs"
  /\ v # filter
  /\ filter' = v
  /\ page' = 1
  /\ UNCHANGED <<route, prefix, folders, files, loading, err, sortKey, sortDir,
                 knownPrefixes, reqVars, chatVars, drawerVars, lsVars, setVars>>

\* the sort-key select: setSortKey(value)
SetSortKey(k) ==
  /\ route = "docs"
  /\ k # sortKey
  /\ sortKey' = k
  /\ UNCHANGED <<route, prefix, folders, files, loading, err, filter, sortDir, page,
                 knownPrefixes, reqVars, chatVars, drawerVars, lsVars, setVars>>

\* a direction select that reversed the stored array itself (files.reverse())
SetSortDir_ReversesStored(d) ==
  /\ route = "docs"
  /\ d # sortDir
  /\ sortDir' = d
  /\ files' = [i \in 1..Len(files) |-> files[Len(files) + 1 - i]]
  /\ UNCHANGED <<route, prefix, folders, loading, err, filter, sortKey, page,
                 knownPrefixes, reqVars, chatVars, drawerVars, lsVars, setVars>>

\* the sort-direction select: setSortDir(value)
SetSortDir(d) ==
  /\ route = "docs"
  /\ d # sortDir
  /\ sortDir' = d
  /\ UNCHANGED <<route, prefix, folders, files, loading, err, filter, sortKey, page,
                 knownPrefixes, reqVars, chatVars, drawerVars, lsVars, setVars>>

\* the pager is rendered only when the filtered files exceed one page
PagerShown == Len(sortedFilteredFiles) > rowsPerPage

\* Prev button: setPage(p => Math.max(1, p - 1)), disabled on page 1
PrevPage ==
  /\ route = "docs"
  /\ PagerShown
  /\ page > 1
  /\ page' = Max(1, page - 1)
  /\ UNCHANGED <<route, prefix, folders, files, loading, err, filter, sortKey, sortDir,
                 knownPrefixes, reqVars, chatVars, drawerVars, lsVars, setVars>>

\* Next button: setPage(p => Math.min(totalPages, p + 1)), disabled on the last page
NextPage ==
  /\ route = "docs"
  /\ PagerShown
  /\ page < totalPages
  /\ page' = Min(totalPages, page + 1)
  /\ UNCHANGED <<route, prefix, folders, files, loading, err, filter, sortKey, sortDir,
                 knownPrefixes, reqVars, chatVars, drawerVars, lsVars, setVars>>

(***************************************************************************)
(* Settings.jsx                                                            *)
(***************************************************************************)
\* ENV.defaultPrefix and ENV.knownPrefixes of the deployment
EnvDefaultPrefix == EMPTY
EnvKnownPrefixes == << <<"b", "/">> >>

\* the values typed into the rows-per-page input (0: the input emptied)
RowInputs == {0, 1, 2}

\* Settings state while the page is not mounted
NoSettings ==
  /\ sStartMode' = "root"
  /\ sDefaultPrefix' = EMPTY
  /\ sItemsPerPage' = 0
  /\ sRememberLast' = "true"
  /\ sAvailable' = << >>
  /\ sLoadingFolders' = FALSE

\* Docs state while the page is not mounted
NoDocs ==
  /\ prefix' = EMPTY
  /\ folders' = << >>
  /\ files' = << >>
  /\ loading' = FALSE
  /\ err' = ""
  /\ filter' = EMPTY
  /\ sortKey' = "name"
  /\ sortDir' = "asc"
  /\ page' = 1
  /\ knownPrefixes' = << >>

\* getLocalKnown(): ENV.knownPrefixes and the stored list, de-duplicated, sorted
getLocalKnown == SortStrings(Range(EnvKnownPrefixes) \cup Range(ReadKnown(lsKnown)))

\* the Settings route is opened: Docs unmounts (its requests stay
\* outstanding), Settings initialises its working copy from localStorage
\* and its discovery effect starts
OpenSettings ==
  /\ route = "docs"
  /\ route' = "settings"
  /\ NoDocs
  /\ orphans' = orphans \o inflight
  /\ inflight' = << >>
  /\ latestPfx' = EMPTY
  /\ latestOutcome' = "none"
  /\ UNCHANGED <<cap, bucket, chatVars>>
  /\ drawerFile' = [key |-> Null, size |-> 0, lastModified |-> 0]
  /\ drawerLoading' = FALSE
  /\ drawerError' = ""
  /\ drawerSummary' = EMPTY
  /\ summaryReqs' = << >>
  /\ drawerFrom' = Null
  /\ sDefaultPrefix' = (IF OrEmpty(lsDefaultPrefix) # EMPTY THEN lsDefaultPrefix
                        ELSE EnvDefaultPrefix)
  /\ sStartMode' = (IF sDefaultPrefix' # EMPTY THEN "custom" ELSE "root")
  /\ sItemsPerPage' = (IF lsItemsPerPage = 0 THEN DefaultRows ELSE lsItemsPerPage)
  /\ sRememberLast' = (IF lsRememberLast = Absent THEN "true" ELSE lsRememberLast)
  /\ sAvailable' = << >>
  /\ sLoadingFolders' = TRUE
  /\ UNCHANGED lsVars

\* the Docs route is opened: Settings unmounts (its effect is cancelled),
\* Docs initialises from localStorage and its mount effect calls load(prefix)
OpenDocs ==
  /\ route = "settings"
  /\ Outstanding < cap
  /\ route' = "docs"
  /\ NoSettings
  /\ prefix' = initialPrefix
  /\ folders' = << >>
  /\ files' = << >>
  /\ loading' = TRUE
  /\ err' = ""
  /\ filter' = EMPTY
  /\ sortKey' = "name"
  /\ sortDir' = "asc"
  /\ page' = 1
  /\ knownPrefixes' = KnownPrefixesOf(lsKnown, initialPrefix, defaultPrefixPref)
  /\ inflight' = <<initialPrefix>>
  /\ latestPfx' = initialPrefix
  /\ latestOutcome' = "pending"
  /\ UNCHANGED <<orphans, cap, bucket, chatVars, drawerVars, lsVars>>

\* the start-mode select; the effects set defaultPrefix to "" in root mode
\* and restart the folder discovery
SetStartMode(m) ==
  /\ route = "settings"
  /\ m # sStartMode
  /\ sStartMode' = m
  /\ sDefaultPrefix' = (IF m = "root" THEN EMPTY ELSE sDefaultPrefix)
  /\ sLoadingFolders' = TRUE
  /\ UNCHANGED <<route, docsVars, reqVars, chatVars, drawerVars, lsVars, sItemsPerPage, sRememberLast,
                 sAvailable>>

\* the options of the folder select
FolderOptions ==
  (IF sLoadingFolders \/ sAvailable = << >> THEN {EMPTY} ELSE {})
    \cup (IF sDefaultPrefix # EMPTY THEN {sDefaultPrefix} ELSE {})
    \cup Range(sAvailable)

\* the folder select (shown in custom mode); the discovery effect restarts
SetDefaultPrefix(v) ==
  /\ route = "settings"
  /\ sStartMode = "custom"
  /\ v \in FolderOptions
  /\ v # sDefaultPrefix
  /\ sDefaultPrefix' = v
  /\ sLoadingFolders' = TRUE
  /\ UNCHANGED <<route, docsVars, reqVars, chatVars, drawerVars, lsVars, sStartMode, sItemsPerPage,
                 sRememberLast, sAvailable>>

\* the rows-per-page input: setItemsPerPage(Number(value || 0))
SetItemsPerPage(n) ==
  /\ route = "settings"
  /\ n # sItemsPerPage
  /\ sItemsPerPage' = n
  /\ UNCHANGED <<route, docsVars, reqVars, chatVars, drawerVars, lsVars, sStartMode, sDefaultPrefix,
                 sRememberLast, sAvailable, sLoadingFolders>>

\* the remember-last-folder checkbox
SetRememberLast ==
  /\ route = "settings"
  /\ sRememberLast' = (IF sRememberLast = "true" THEN "false" ELSE "true")
  /\ UNCHANGED <<route, docsVars, reqVars, chatVars, drawerVars, lsVars, sStartMode, sDefaultPrefix,
                 sItemsPerPage, sAvailable, sLoadingFolders>>

\* savePrefs()
savePrefs ==
  /\ route = "settings"
  /\ lsDefaultPrefix' = (IF sStartMode = "root" THEN EMPTY ELSE sDefaultPrefix)
  /\ lsItemsPerPage' = (IF sItemsPerPage = 0 THEN DefaultRows ELSE sItemsPerPage)
  /\ lsRememberLast' = sRememberLast
  /\ UNCHANGED <<route, docsVars, reqVars, chatVars, drawerVars, lsLastPrefix, lsKnown, setVars>>

\* resetDefaults(); the discovery effect restarts when a dependency changed
resetDefaults ==
  /\ route = "settings"
  /\ sStartMode' = (IF EnvDefaultPrefix # EMPTY THEN "custom" ELSE "root")
  /\ sDefaultPrefix' = EnvDefaultPrefix
  /\ sItemsPerPage' = DefaultRows
  /\ sRememberLast' = "true"
  /\ sLoadingFolders' = (sLoadingFolders \/ sStartMode' # sStartMode
                           \/ sDefaultPrefix' # sDefaultPrefix)
  /\ UNCHANGED <<route, docsVars, reqVars, chatVars, drawerVars, lsVars, sAvailable>>

\* prefixes derived from the Contents keys: k.slice(0, k.indexOf("/") + 1)
DerivedPrefixes(doc) ==
  SortStrings({SubSeq(Trim(doc.contents[i].key), 1,
                      IndexOf(Trim(doc.contents[i].key), <<SEP>>)) :
               i \in {j \in 1..Len(doc.contents) :
                        IndexOf(Trim(doc.contents[j].key), <<SEP>>) > 1}})

\* the folders found by the discovery effect for a root listing document
Discovered(doc) ==
  LET cps == FilterNonEmpty(MapTrim(doc.cps))
  IN  IF cps # << >> THEN cps
      ELSE IF DerivedPrefixes(doc) # << >> THEN DerivedPrefixes(doc)
      ELSE getLocalKnown

\* the discovery effect applies its result (only the latest run is not
\* cancelled); choosing the first folder as default restarts the effect
DiscoverApply(found) ==
  /\ route = "settings"
  /\ sLoadingFolders
  /\ sAvailable' = found
  /\ IF sStartMode = "custom" /\ sDefaultPrefix = EMPTY /\ found # << >>
        /\ found[1] # EMPTY
     THEN sDefaultPrefix' = found[1] /\ sLoadingFolders' = TRUE
     ELSE sDefaultPrefix' = sDefaultPrefix /\ sLoadingFolders' = FALSE
  /\ UNCHANGED <<route, docsVars, reqVars, chatVars, drawerVars, lsVars, sStartMode, sItemsPerPage,
                 sRememberLast>>

DiscoverOk == DiscoverApply(Discovered(S3List(EMPTY)))

\* the root listing is denied or the network fails
DiscoverFail == DiscoverApply(getLocalKnown)

(***************************************************************************)
(* Docs.jsx: the preview drawer and its summary                            *)
(***************************************************************************)
\* at most this many summary fetches are outstanding at once
MaxPreviews == 2

\* drawerFile is null
NoFile == [key |-> Null, size |-> 0, lastModified |-> 0]

\* the drawer state of a Docs that has opened no preview
DrawerRest ==
  /\ drawerFile = NoFile
  /\ drawerLoading = FALSE
  /\ drawerError = ""
  /\ drawerSummary = EMPTY
  /\ summaryReqs = << >>
  /\ drawerFrom = Null

NoSummaryMsg == "No summary yet"

\* the body of GET /summary?key=k : a text of its own for every document
SummaryOf(k) == <<"A">> \o k

\* openPreview(file), up to its await: the preview button of a file row
openPreview ==
  /\ route = "docs"
  /\ Len(summaryReqs) < MaxPreviews
  /\ \E i \in 1..Len(pagedFiles) :
       /\ drawerFile' = pagedFiles[i]
       /\ summaryReqs' = Append(summaryReqs, pagedFiles[i].key)
  /\ drawerSummary' = EMPTY
  /\ drawerError' = ""
  /\ drawerLoading' = TRUE
  /\ drawerFrom' = Null
  /\ UNCHANGED <<route, docsVars, reqVars, lsVars, setVars, chatVars>>

\* the summary service answers the i-th outstanding fetch with a text
SummaryOk(i) ==
  /\ route = "docs"
  /\ i \in 1..Len(summaryReqs)
  /\ summaryReqs' = RemoveAt(summaryReqs, i)
  /\ drawerSummary' = SummaryOf(summaryReqs[i])
  /\ drawerLoading' = FALSE
  /\ drawerFrom' = summaryReqs[i]
  /\ UNCHANGED <<route, docsVars, reqVars, lsVars, setVars, chatVars, drawerFile, drawerError>>

\* the fetch fails or is answered with a non-success status: catch, finally
SummaryFail(i) ==
  /\ route = "docs"
  /\ i \in 1..Len(summaryReqs)
  /\ summaryReqs' = RemoveAt(summaryReqs, i)
  /\ drawerError' = NoSummaryMsg
  /\ drawerLoading' = FALSE
  /\ drawerFrom' = summaryReqs[i]
  /\ UNCHANGED <<route, docsVars, reqVars, lsVars, setVars, chatVars, drawerFile, drawerSummary>>

\* closePreview(): the close button of the drawer
closePreview ==
  /\ route = "docs"
  /\ drawerFile # NoFile
  /\ drawerFile' = NoFile
  /\ drawerSummary' = EMPTY
  /\ drawerError' = ""
  /\ drawerFrom' = Null
  /\ UNCHANGED <<route, docsVars, reqVars, lsVars, setVars, chatVars, drawerLoading, summaryReqs>>

(***************************************************************************)
(* Chat: questions, answers with citation records, the document preview    *)
(***************************************************************************)
\* at most this many questions are asked in one visit of the page
MaxQuestions == 2
\* at most this many citation records come with one answer
MaxSources == 2

\* the preview is closed: selectedPdf is null
Closed == [url |-> Null, page |-> 0]

\* String.prototype.split(/\s+/): cut at every run of white space
RECURSIVE SplitWsAcc(_, _, _)
SplitWsAcc(s, cur, inRun) ==
  IF s = EMPTY THEN <<cur>>
  ELSE IF Head(s) = SPACE
    THEN IF inRun THEN SplitWsAcc(Tail(s), EMPTY, TRUE)
         ELSE <<cur>> \o SplitWsAcc(Tail(s), EMPTY, TRUE)
  ELSE SplitWsAcc(Tail(s), Append(cur, Head(s)), FALSE)

SplitWs(s) == SplitWsAcc(s, EMPTY, FALSE)

\* the characters [a-zA-Z0-9] that occur in the model
Alnum == {"A", "a", "b", "c", "x"}

\* word.replace(/[^a-zA-Z0-9]/g, "")
RECURSIVE CleanWord(_)
CleanWord(s) ==
  IF s = EMPTY THEN EMPTY
  ELSE IF Head(s) \in Alnum THEN <<Head(s)>> \o CleanWord(Tail(s))
  ELSE CleanWord(Tail(s))

\* [...new Set(list)]: the first occurrence of every element, in order
RECURSIVE Dedupe(_)
Dedupe(list) ==
  IF list = << >> THEN << >>
  ELSE LET front == Dedupe(SubSeq(list, 1, Len(list) - 1))
           last  == list[Len(list)]
       IN  IF last \in Range(front) THEN front ELSE Append(front, last)

\* Array.prototype.filter(h => h && h.length > n) on strings
RECURSIVE LongerThan(_, _)
LongerThan(list, n) ==
  IF list = << >> THEN << >>
  ELSE IF Len(Head(list)) > n THEN <<Head(list)>> \o LongerThan(Tail(list), n)
  ELSE LongerThan(Tail(list), n)

\* a citation record of an answer; file and key are Null when the service
\* leaves them out, page 0 stands for a record without a page, and the
\* highlight is "none", one "string" or an "array" of strings
Cite(u, f, k, p, kind, parts) ==
  [url |-> u, file |-> f, key |-> k, page |-> p,
   highlight |-> [kind |-> kind, parts |-> parts]]

\* Array.isArray(s.highlight) ? s.highlight.join(" ") : String(s.highlight)
highlightStr(cite) == Join(cite.highlight.parts, SPACE)

\* !s.highlight : undefined and the empty string
NoHighlight(cite) ==
  \/ cite.highlight.kind = "none"
  \/ cite.highlight.kind = "string" /\ highlightStr(cite) = EMPTY

\* the loop over i: the 2-word phrase and the 3-word phrase starting at word i
RECURSIVE Phrases(_, _)
Phrases(words, i) ==
  IF i > Len(words) - 1 THEN << >>
  ELSE LET phrase2 == Trim(Join(SubSeq(words, i, i + 1), SPACE))
           phrase3 == Trim(Join(SubSeq(words, i, i + 2), SPACE))
       IN  (IF Len(phrase2) > 5 THEN <<phrase2>> ELSE << >>)
           \o (IF i < Len(words) - 1 /\ Len(phrase3) > 8 THEN <<phrase3>> ELSE << >>)
           \o Phrases(words, i + 1)

\* the fragments of one citation record: the whole text, its phrases, its
\* cleaned words, without repetition and longer than three characters
Fragments(cite) ==
  IF NoHighlight(cite) THEN << >>
  ELSE LET str   == highlightStr(cite)
           words == SplitWs(str)
           clean == [i \in 1..Len(words) |-> CleanWord(words[i])]
       IN  LongerThan(Dedupe(<<Trim(str)>> \o Phrases(words, 1) \o LongerThan(clean, 3)), 3)

\* Array.prototype.flatMap over a list of lists
RECURSIVE Flatten(_)
Flatten(lists) ==
  IF lists = << >> THEN << >> ELSE Head(lists) \o Flatten(Tail(lists))

\* a message of the conversation; a message without sources or suggestions
\* holds the empty list, which every reader treats like a missing one
Msg(r, c, srcs, sugg) == [role |-> r, content |-> c, sources |-> srcs, suggestions |-> sugg]

defaultAssistantMessage == <<"A">>

\* chatHistory.filter(m => m.role === 'assistant' && m.sources).flatMap(m => m.sources)
AllSources(hist) ==
  Flatten([i \in 1..Len(hist) |->
             IF hist[i].role = "assistant" THEN hist[i].sources ELSE << >>])

\* the test of matchingSources: the same url, or a file name or key that
\* occurs in the url of the open document, and the same page
SourceMatches(cite, sel) ==
  LET urlMatch  == \/ cite.url = sel.url
                   \/ cite.file # Null /\ cite.file # EMPTY /\ sel.url # EMPTY
                        /\ Includes(sel.url, cite.file)
                   \/ cite.key # Null /\ cite.key # EMPTY /\ sel.url # EMPTY
                        /\ Includes(sel.url, cite.key)
      pageMatch == cite.page = sel.page
  IN  urlMatch /\ pageMatch

matchingSources(sel, hist) ==
  LET all == AllSources(hist)
  IN  [i \in 1..Len(all) |-> IF SourceMatches(all[i], sel) THEN <<all[i]>> ELSE << >>]

\* the useMemo value pdfHighlights for a selected document and a history
HighlightsOf(sel, hist) ==
  IF sel = Closed THEN << >>
  ELSE LET matching == Flatten(matchingSources(sel, hist))
       IN  Flatten([i \in 1..Len(matching) |-> Fragments(matching[i])])

pdfHighlights == HighlightsOf(selectedPdf, chatHistory)

\* h.filter(m => m.role !== "assistant_temp")
RECURSIVE WithoutTemp(_)
WithoutTemp(hist) ==
  IF hist = << >> THEN << >>
  ELSE IF Head(hist).role = "assistant_temp" THEN WithoutTemp(Tail(hist))
  ELSE <<Head(hist)>> \o WithoutTemp(Tail(hist))

Asked == Cardinality({i \in 1..Len(chatHistory) : chatHistory[i].role = "user"})

\* the texts typed into the question input
QTexts == {EMPTY, <<"a">>}
\* the questions of the FAQ buttons
faqItems == {<<"a">>}
\* the suggested questions the service may attach to an answer
SuggestionLists == {<< >>, << <<"a">> >>}

\* the citation records the service may return: the same page of two
\* documents whose file name is the same, another page of the first, and a
\* record without file name, page and highlight
CitePool ==
  << Cite(<<"a", "/", "x">>, <<"x">>, Null, 1, "string", << <<"a", "b", "c", "a">> >>),
     Cite(<<"b", "/", "x">>, <<"x">>, Null, 1, "string", << <<"x", "b", "c", "x">> >>),
     Cite(<<"a", "/", "x">>, <<"x">>, Null, 2, "array",
          << <<"c", "a", "a", "b">>, <<"b", "a", ",", "c">> >>),
     Cite(<<"c", "/", "a">>, Null, <<"c", "/", "a">>, 0, "none", << >>) >>

\* the sources of one answer: up to MaxSources records, in the pool's order
SourceLists ==
  LET pick(S) == [k \in 1..Cardinality(S) |->
                    CitePool[CHOOSE i \in S : Cardinality({j \in S : j < i}) = k - 1]]
  IN  {pick(S) : S \in {T \in SUBSET (1..Len(CitePool)) : Cardinality(T) <= MaxSources}}

\* onChange of the question input: setQ(value)
SetQ(t) ==
  /\ route = "chat"
  /\ t # q
  /\ q' = t
  /\ UNCHANGED <<navVars, rendered, chatHistory, selectedPdf, streams, previewed>>

\* sendQuery(queryText): returns at once on a blank text, else appends the
\* user's message, clears the input and opens an event stream
sendQuery(queryText) ==
  /\ route = "chat"
  /\ Trim(queryText) # EMPTY
  /\ Asked < MaxQuestions
  /\ chatHistory' = Append(chatHistory, Msg("user", queryText, << >>, << >>))
  /\ q' = EMPTY
  /\ streams' = streams + 1
  /\ UNCHANGED <<navVars, rendered, selectedPdf, previewed>>

\* the Send button and the Enter key
SendInput == sendQuery(q)

\* an FAQ button
handleFaqClick == \E f \in faqItems : sendQuery(f)

\* a suggested question under an answer
SendSuggestion ==
  \E i \in 1..Len(chatHistory) :
    /\ chatHistory[i].role = "assistant"
    /\ \E j \in 1..Len(chatHistory[i].suggestions) : sendQuery(chatHistory[i].suggestions[j])

\* a status handler that appends its bubble without filtering the history
StreamStatus_KeepsTemp ==
  /\ route = "chat"
  /\ streams > 0
  /\ chatHistory' = Append(chatHistory,
                           Msg("assistant_temp", <<"x">>, << >>, << >>))
  /\ UNCHANGED <<navVars, rendered, q, selectedPdf, streams, previewed>>

\* onmessage with data.status: the temporary bubble is replaced
StreamStatus ==
  /\ route = "chat"
  /\ streams > 0
  /\ chatHistory' = Append(WithoutTemp(chatHistory),
                           Msg("assistant_temp", <<"x">>, << >>, << >>))
  /\ UNCHANGED <<navVars, rendered, q, selectedPdf, streams, previewed>>

\* onmessage with data.answer: the stream is closed and the answer appended
\* with its sources and suggestions
StreamAnswer ==
  /\ route = "chat"
  /\ streams > 0
  /\ \E srcs \in SourceLists, sugg \in SuggestionLists :
       chatHistory' = Append(WithoutTemp(chatHistory),
                             Msg("assistant", <<"a">>, srcs, sugg))
  /\ streams' = streams - 1
  /\ UNCHANGED <<navVars, rendered, q, selectedPdf, previewed>>

\* onmessage with data.error: the stream is closed and the error appended
StreamError ==
  /\ route = "chat"
  /\ streams > 0
  /\ chatHistory' = Append(WithoutTemp(chatHistory),
                           Msg("assistant", <<"x", "x">>, << >>, << >>))
  /\ streams' = streams - 1
  /\ UNCHANGED <<navVars, rendered, q, selectedPdf, previewed>>

\* onerror: the stream is closed and the temporary bubble removed
StreamFail ==
  /\ route = "chat"
  /\ streams > 0
  /\ chatHistory' = WithoutTemp(chatHistory)
  /\ streams' = streams - 1
  /\ UNCHANGED <<navVars, rendered, q, selectedPdf, previewed>>

\* a source link under an answer: setSelectedPdf({ url: s.url, page: s.page })
OpenSource ==
  /\ route = "chat"
  /\ \E i \in 1..Len(chatHistory) :
       /\ chatHistory[i].role = "assistant"
       /\ \E j \in 1..Len(chatHistory[i].sources) :
            /\ selectedPdf' = [url |-> chatHistory[i].sources[j].url,
                               page |-> chatHistory[i].sources[j].page]
            /\ previewed' = chatHistory[i].sources
  /\ UNCHANGED <<navVars, rendered, q, chatHistory, streams>>

\* the close button of the viewer, shown while a document is selected:
\* setSelectedPdf(null)
ClosePreview ==
  /\ route = "chat"
  /\ selectedPdf # Closed
  /\ selectedPdf' = Closed
  /\ previewed' = << >>
  /\ UNCHANGED <<navVars, rendered, q, chatHistory, streams>>

\* normalizeText: lower case, every character that is neither a letter, a
\* digit nor white space becomes a space, runs of white space become one
\* space, and the ends are trimmed
RECURSIVE CollapseWs(_)
CollapseWs(s) ==
  IF s = EMPTY THEN EMPTY
  ELSE IF Head(s) = SPACE
    THEN <<SPACE>> \o CollapseWs(TrimLeft(Tail(s)))
  ELSE <<Head(s)>> \o CollapseWs(Tail(s))

normalizeText(str) ==
  LET lower  == ToLower(str)
      spaced == [i \in 1..Len(lower) |->
                   IF lower[i] \in Alnum \/ lower[i] = SPACE THEN lower[i] ELSE SPACE]
  IN  Trim(CollapseWs(spaced))

\* a matcher that takes containment of one string in the other for a match
highlightMatches_Substring(normalizedText, highlight) ==
  \/ Includes(normalizeText(highlight), normalizedText)
  \/ Includes(normalizedText, normalizeText(highlight))

\* the callback of highlights.some in highlightTextToHTML
highlightMatches(normalizedText, highlight) ==
  LET normalizedHighlight == normalizeText(highlight)
  IN  IF normalizedText = normalizedHighlight THEN TRUE
      ELSE IF ~Includes(normalizedHighlight, <<SPACE>>) /\ ~Includes(normalizedText, <<SPACE>>)
        THEN normalizedText = normalizedHighlight
      ELSE IF Includes(normalizedHighlight, <<SPACE>>)
        THEN \A w \in Range(Split(normalizedText, SPACE)) :
               w \in Range(Split(normalizedHighlight, SPACE))
      ELSE FALSE

\* highlightTextToHTML(text, highlights) wraps the text in <mark> exactly
\* when this holds; an empty text or an empty list returns the plain text
shouldHighlight(text, highlights) ==
  IF text = EMPTY \/ highlights = << >> THEN FALSE
  ELSE \E i \in 1..Len(highlights) : highlightMatches(normalizeText(text), highlights[i])

\* no text item has been rendered yet
NoRender == [done |-> FALSE, str |-> EMPTY, highlights |-> << >>, marked |-> FALSE]

\* at most this many words make up a text item of the page
MaxSpanWords == 2
\* at most this many words make up the highlight text of a citation record
MaxHighlightWords == 2

\* the words of the documents and of the highlight texts
Tokens == {<<"A", "b", "c", "a", ",">>, <<"b", "c">>, <<",", ",", ",", ",">>}

\* the texts of 1..n words, one space between two words
RECURSIVE Texts(_)
Texts(n) ==
  IF n <= 1 THEN Tokens
  ELSE Texts(n - 1) \cup {t \o <<SPACE>> \o w : t \in Texts(n - 1), w \in Tokens}

\* the text items a page hands to customTextRenderer: texts, a text with a
\* doubled space, a blank item and an empty item
Spans == Texts(MaxSpanWords) \cup {<<"b", "c", " ", " ", "a", "b", "c", "a">>,
                                   <<SPACE>>, EMPTY}

\* customTextRenderer(textItem) while a document is open:
\* highlightTextToHTML(textItem.str, pdfHighlights)
RenderText(str) ==
  /\ route = "chat"
  /\ selectedPdf # Closed
  /\ rendered' = [done |-> TRUE, str |-> str, highlights |-> pdfHighlights,
                  marked |-> shouldHighlight(str, pdfHighlights)]
  /\ UNCHANGED <<navVars, q, chatHistory, selectedPdf, streams, previewed>>

\* Chat state while the page is not mounted, and at mount
ChatRest ==
  /\ rendered = NoRender
  /\ q = EMPTY
  /\ chatHistory = <<Msg("assistant", defaultAssistantMessage, << >>, << >>)>>
  /\ selectedPdf = Closed
  /\ streams = 0
  /\ previewed = << >>

(***************************************************************************)
(* Specifications                                                          *)
(***************************************************************************)
\* Docs is mounted on empty localStorage but for the rows-per-page
\* preference rows (0: never saved); its mount effect has called load("");
\* n requests may be outstanding at once and the bucket holds objs
InitDocs(rows, n, objs) ==
  /\ route = "docs"
  /\ cap = n
  /\ bucket = objs
  /\ lsLastPrefix = Null
  /\ lsKnown = Null
  /\ lsDefaultPrefix = Null
  /\ lsItemsPerPage = rows
  /\ lsRememberLast = Absent
  /\ prefix = EMPTY
  /\ folders = << >>
  /\ files = << >>
  /\ loading = TRUE
  /\ err = ""
  /\ filter = EMPTY
  /\ sortKey = "name"
  /\ sortDir = "asc"
  /\ page = 1
  /\ knownPrefixes = << >>
  /\ inflight = <<EMPTY>>
  /\ orphans = << >>
  /\ latestPfx = EMPTY
  /\ latestOutcome = "pending"
  /\ sStartMode = "root"
  /\ sDefaultPrefix = EMPTY
  /\ sItemsPerPage = 0
  /\ sRememberLast = "true"
  /\ sAvailable = << >>
  /\ sLoadingFolders = FALSE
  /\ DrawerRest
  /\ ChatRest

\* the rows-per-page values a user has saved before opening Docs
SavedRows == {1, 2}

Navigate ==
  \/ GoRoot
  \/ gotoDefault
  \/ onUp
  \/ onRefresh
  \/ onOpenFolder
  \/ OpenCrumb
  \/ QuickAccess

Respond ==
  \/ \E i \in 1..cap : LoadOk(i)
  \/ \E i \in 1..cap : LoadFail(i)

ViewControl ==
  \/ \E v \in Filters : SetFilter(v)
  \/ \E k \in SortKeys : SetSortKey(k)
  \/ \E d \in SortDirs : SetSortDir(d)
  \/ PrevPage
  \/ NextPage

OrphanRespond ==
  \/ \E i \in 1..cap : OrphanOk(i)
  \/ \E i \in 1..cap : OrphanFail(i)

\* (the rows-per-page input plays no part in navigation and is left to rest)
SettingsControl ==
  \/ \E m \in {"root", "custom"} : SetStartMode(m)
  \/ \E v \in FolderOptions : SetDefaultPrefix(v)
  \/ SetRememberLast
  \/ savePrefs
  \/ resetDefaults
  \/ DiscoverOk
  \/ DiscoverFail

\* the Navigator on a first visit: navigation and listing responses
Init == InitDocs(0, MaxInflight, BucketDocs)

Next ==
  \/ Navigate
  \/ Respond

Spec == Init /\ [][Next]_vars

\* the Navigator on a first visit over a store that may also answer with a
\* body that is no listing
NextBodies ==
  \/ Navigate
  \/ Respond
  \/ \E i \in 1..cap : LoadUnparsed(i)

SpecBodies == Init /\ [][NextBodies]_vars

\* the Navigator left for the Settings page and reopened while requests of
\* the earlier mount may still be outstanding
InitRemount == InitDocs(0, MaxInflight, BucketSmall)

NextRemount ==
  \/ Navigate
  \/ Respond
  \/ OrphanRespond
  \/ OpenSettings
  \/ OpenDocs

SpecRemount == InitRemount /\ [][NextRemount]_vars

\* the Navigator with its preview drawer over a root that holds two files
InitDrawer == InitDocs(0, MaxInflightView, BucketSort)

Summary ==
  \/ \E i \in 1..MaxPreviews : SummaryOk(i)
  \/ \E i \in 1..MaxPreviews : SummaryFail(i)

NextDrawer ==
  \/ Navigate
  \/ Respond
  \/ openPreview
  \/ closePreview
  \/ Summary

SpecDrawer == InitDrawer /\ [][NextDrawer]_vars

\* the Navigator with its view controls, rows-per-page saved beforehand
InitView == \E rows \in SavedRows : InitDocs(rows, MaxInflightView, BucketDocs)

NextView ==
  \/ Navigate
  \/ Respond
  \/ ViewControl

SpecView == InitView /\ [][NextView]_vars

\* the Navigator and the Settings page over the same localStorage
InitPrefs == InitDocs(0, MaxInflightPrefs, BucketSmall)

NextPrefs ==
  \/ Navigate
  \/ Respond
  \/ OrphanRespond
  \/ OpenSettings
  \/ OpenDocs
  \/ SettingsControl

SpecPrefs == InitPrefs /\ [][NextPrefs]_vars

\* the folder names of remembered paths
SegmentNames == {<<"a">>, <<"b", ",", "c">>}

\* the Location made of the segments segs
RECURSIVE LocOf(_)
LocOf(segs) ==
  IF segs = << >> THEN EMPTY ELSE Head(segs) \o <<SEP>> \o LocOf(Tail(segs))

\* the Locations of at most n segments
Locations(n) == {LocOf(segs) : segs \in UNION {[1..k -> SegmentNames] : k \in 0..n}}

\* Docs is mounted with the folder last stored under LS.lastPrefix (remember
\* last folder is on by default); its mount effect has called load(last)
InitRestored(last, n, objs) ==
  /\ route = "docs"
  /\ cap = n
  /\ bucket = objs
  /\ lsLastPrefix = last
  /\ lsKnown = Null
  /\ lsDefaultPrefix = Null
  /\ lsItemsPerPage = 0
  /\ lsRememberLast = Absent
  /\ prefix = initialPrefix
  /\ folders = << >>
  /\ files = << >>
  /\ loading = TRUE
  /\ err = ""
  /\ filter = EMPTY
  /\ sortKey = "name"
  /\ sortDir = "asc"
  /\ page = 1
  /\ knownPrefixes = KnownPrefixesOf(lsKnown, prefix, defaultPrefixPref)
  /\ inflight = <<prefix>>
  /\ orphans = << >>
  /\ latestPfx = prefix
  /\ latestOutcome = "pending"
  /\ sStartMode = "root"
  /\ sDefaultPrefix = EMPTY
  /\ sItemsPerPage = 0
  /\ sRememberLast = "true"
  /\ sAvailable = << >>
  /\ sLoadingFolders = FALSE
  /\ DrawerRest
  /\ ChatRest

\* the Navigator reopened in a remembered folder, walking up
InitUp == \E last \in Locations(MaxSegments) : InitRestored(last, MaxInflight, BucketDocs)

NextUp ==
  \/ onUp
  \/ Respond

SpecUp == InitUp /\ [][NextUp]_vars

\* objects a bucket may hold: folder markers (size 0, key ending with "/"),
\* a key ending with "/" that has content, an empty file, a marker-like key
\* followed by a space, and files inside a folder
ObjectPool ==
  { Obj(<<"a", "/">>, 0, 1),
    Obj(<<"a", "/">>, 2, 1),
    Obj(<<"a", "/", " ">>, 0, 2),
    Obj(<<"x">>, 0, 3),
    Obj(<<"a", "/", "x">>, 1, 4),
    Obj(<<"a", "/", "b", "/">>, 0, 5) }

\* the buckets of at most n objects with distinct keys
Buckets(n) ==
  {objs \in SUBSET ObjectPool :
     /\ Cardinality(objs) <= n
     /\ \A o1, o2 \in objs : o1.key = o2.key => o1 = o2}

\* the Navigator over any such bucket
InitListing == \E objs \in Buckets(MaxObjects) : InitDocs(0, MaxInflightView, objs)

NextListing ==
  \/ GoRoot
  \/ onRefresh
  \/ onUp
  \/ onOpenFolder
  \/ Respond

SpecListing == InitListing /\ [][NextListing]_vars

\* the Navigator with its view controls over files that compare equal
InitSort == InitDocs(2, MaxInflightView, BucketSort)

SpecSort == InitSort /\ [][NextView]_vars

\* the Chat page on a first visit: Docs and Settings are not mounted, no
\* listing request is outstanding and localStorage is empty
NavAtChat ==
  /\ route = "chat"
  /\ cap = 0
  /\ bucket = BucketSmall
  /\ lsLastPrefix = Null
  /\ lsKnown = Null
  /\ lsDefaultPrefix = Null
  /\ lsItemsPerPage = 0
  /\ lsRememberLast = Absent
  /\ prefix = EMPTY
  /\ folders = << >>
  /\ files = << >>
  /\ loading = FALSE
  /\ err = ""
  /\ filter = EMPTY
  /\ sortKey = "name"
  /\ sortDir = "asc"
  /\ page = 1
  /\ knownPrefixes = << >>
  /\ inflight = << >>
  /\ orphans = << >>
  /\ latestPfx = EMPTY
  /\ latestOutcome = "none"
  /\ sStartMode = "root"
  /\ sDefaultPrefix = EMPTY
  /\ sItemsPerPage = 0
  /\ sRememberLast = "true"
  /\ sAvailable = << >>
  /\ sLoadingFolders = FALSE
  /\ DrawerRest

InitChat == NavAtChat /\ ChatRest

Ask ==
  \/ \E t \in QTexts : SetQ(t)
  \/ SendInput
  \/ handleFaqClick
  \/ SendSuggestion

Stream ==
  \/ StreamStatus
  \/ StreamAnswer
  \/ StreamError
  \/ StreamFail

Preview ==
  \/ OpenSource
  \/ ClosePreview

NextChat ==
  \/ Ask
  \/ Stream
  \/ Preview

SpecChat == InitChat /\ [][NextChat]_vars

\* questions asked from the FAQ buttons and the events of their streams
NextStreams ==
  \/ handleFaqClick
  \/ Stream

SpecStreams == InitChat /\ [][NextStreams]_vars

\* the preview is open on page 1 of a document that one answer cites with
\* the highlight text h, and the page's text layer is about to be rendered
InitPreview(h) ==
  LET cited == <<Cite(<<"a", "/", "x">>, <<"x">>, Null, 1, "string", <<h>>)>>
  IN  /\ q = EMPTY
      /\ chatHistory = <<Msg("assistant", defaultAssistantMessage, << >>, << >>),
                         Msg("user", <<"a">>, << >>, << >>),
                         Msg("assistant", <<"a">>, cited, << >>)>>
      /\ selectedPdf = [url |-> cited[1].url, page |-> cited[1].page]
      /\ streams = 0
      /\ previewed = cited
      /\ rendered = NoRender

InitMatch == NavAtChat /\ \E h \in Texts(MaxHighlightWords) : InitPreview(h)

NextMatch ==
  \/ \E t \in Spans : RenderText(t)
  \/ Preview

SpecMatch == InitMatch /\ [][NextMatch]_vars

(***************************************************************************)
(* Properties                                                              *)
(***************************************************************************)
\* the listing the store returns for a prefix, as load() receives it
Listing(pfx) == listS3(S3List(pfx))

\* C1: once every request has been answered and the latest one succeeded,
\* the displayed Location, folders and files are those of the latest
\* request; the late response of an earlier request does not replace them.
C1_LatestListingDisplayed ==
  (route = "docs" /\ inflight = << >> /\ latestOutcome = "ok")
    => /\ prefix = latestPfx
       /\ folders = Listing(latestPfx).folders
       /\ files = Listing(latestPfx).files

C3_SupersededFailureIgnored ==
  (route = "docs" /\ inflight = << >> /\ latestOutcome = "ok") => err = ""

\* the number of pages of the filtered file list
FilteredPages == Max(1, CeilDiv(Len(sortedFilteredFiles), rowsPerPage))

\* C4: the rendered file page is the slice for min(pageNumber, totalPages)
\* with totalPages computed from the filtered list; so it is non-empty
\* whenever the filtered list is.
C4_RenderedPageClamped ==
  route = "docs" =>
    /\ pagedFiles = Slice(sortedFilteredFiles,
                          (Min(page, FilteredPages) - 1) * rowsPerPage,
                          Min(page, FilteredPages) * rowsPerPage)
    /\ (sortedFilteredFiles # << >> => pagedFiles # << >>)

\* C5 (as amended): pageNumber is 1 right after every successful load and
\* right after every change of filterText; a change of sortKey or of
\* sortDirection leaves pageNumber as it was.  (Stated by contraposition: a
\* step that ends on another page than 1 is neither a successful load nor a
\* filter change, and a step that moves the page is not a sort change.)
C5_PageResetOnLoadAndFilter ==
  [][/\ page' # 1 =>
          ~((\E i \in 1..cap : LoadOk(i)) \/ (\E v \in Filters : SetFilter(v)))
     /\ page' # page =>
          ~((\E k \in SortKeys : SetSortKey(k)) \/ (\E d \in SortDirs : SetSortDir(d)))]_vars

\* C5 (as claimed): pageNumber is 1 right after every successful load and
\* right after every change of filterText, sortKey and sortDirection.
C5_PageResetOnEveryChange ==
  [][page' # 1 =>
       ~((\E i \in 1..cap : LoadOk(i)) \/ (\E v \in Filters : SetFilter(v))
           \/ (\E k \in SortKeys : SetSortKey(k)) \/ (\E d \in SortDirs : SetSortDir(d)))]_vars

\* a filter is set on a paged listing, the page is 1 and the sort was changed
C5_Witness ==
  /\ route = "docs" /\ prefix # EMPTY /\ filter # EMPTY /\ page = 1
  /\ PagerShown /\ sortKey # "name"

\* C6: the totalPages shown in the pager, which bounds Next, is
\* max(1, ceil(filteredFileCount / pageSize)).
C6_TotalPagesFromFiltered ==
  (route = "docs" /\ PagerShown) => totalPages = FilteredPages

\* the KnownPrefixSet held by a stored value, as read back from localStorage
KnownSetOf(stored) == Range(ReadKnown(stored))

KnownSet == KnownSetOf(lsKnown)

\* the entries the i-th outstanding request remembers when it succeeds
Contribution(i) ==
  Remembered(inflight[i], Listing(inflight[i]).folders, Listing(inflight[i]).files)

OrphanContribution(i) ==
  Remembered(orphans[i], Listing(orphans[i]).folders, Listing(orphans[i]).files)

C8_ConcurrentMergeIsUnion ==
  [][\A i \in 1..cap :
       (LoadOk(i) /\ Len(inflight) = 2)
         => KnownSetOf(lsKnown') = KnownSet \cup Contribution(i)]_vars

\* C9: after a successful load(L) the KnownPrefixSet holds L itself (when L
\* is not root) and the top-level segment of every folder and file key
\* of the listing.
C9_LoadedLocationRemembered ==
  [][\A i \in 1..cap : LoadOk(i) =>
        /\ inflight[i] # EMPTY => inflight[i] \in KnownSetOf(lsKnown')
        /\ \A j \in 1..Len(folders') : TopSegment(folders'[j]) \o <<SEP>> \in KnownSetOf(lsKnown')
        /\ \A j \in 1..Len(files') : TopSegment(files'[j].key) \o <<SEP>>
                                      \in KnownSetOf(lsKnown')]_vars

\* C10: the stored known-prefix value reads back as a duplicate-free list,
\* sorted, whose every entry ends with the separator.
C10_KnownListWellFormed ==
  LET l == ReadKnown(lsKnown)
  IN  /\ \A i, j \in 1..Len(l) : i < j => StrLess(l[i], l[j])
      /\ \A i \in 1..Len(l) : EndsWith(l[i], <<SEP>>)

\* the fallback list the specification asks for: the operator-configured
\* folders and the learned set, de-duplicated and sorted
FallbackList(stored) == SortStrings(Range(EnvKnownPrefixes) \cup KnownSetOf(stored))

\* C11: the list offered when a listing failed is the sorted, de-duplicated
\* union of the configured folders and the learned set (empty when both are),
\* in the Settings folder list and in the Navigator's quick-access list.
C11_FallbackIsConfiguredAndLearned ==
  [][/\ DiscoverFail => sAvailable' = FallbackList(lsKnown)
     /\ \A i \in 1..cap : LoadFail(i) => knownPrefixes' = FallbackList(lsKnown)]_vars

\* a Location is root or ends with the separator
WellFormed(loc) == loc = EMPTY \/ EndsWith(loc, <<SEP>>)

\* C12: the current Location and every Location passed to a listing request
\* is empty or ends with '/'.
C12_LocationsEndWithSeparator ==
  /\ route = "docs" => WellFormed(prefix)
  /\ \A i \in 1..Len(inflight) : WellFormed(inflight[i])
  /\ \A i \in 1..Len(orphans) : WellFormed(orphans[i])

\* the positions of the separators of a Location
SepPositions(loc) == {i \in 1..Len(loc) : loc[i] = SEP}

\* a Location without its last segment: what precedes, and includes, the
\* last separator before the final one
DropLastSegment(loc) ==
  LET inner == SepPositions(loc) \ {Len(loc)}
  IN  IF inner = {} THEN EMPTY
      ELSE SubSeq(loc, 1, CHOOSE i \in inner : \A j \in inner : j <= i)

RECURSIVE Ancestor(_, _)
Ancestor(loc, n) == IF n = 0 THEN loc ELSE Ancestor(parentPrefix(loc), n - 1)

\* C13: parentPrefix of a Location of n >= 1 segments is the Location of its
\* first n-1 segments, parentPrefix("") = "", two applications take a
\* 3-segment path to its first segment and n applications reach root.
C13_ParentDropsLastSegment ==
  /\ parentPrefix(EMPTY) = EMPTY
  /\ \A loc \in {prefix} \cup Range(inflight) :
       /\ parentPrefix(loc) = DropLastSegment(loc)
       /\ Ancestor(loc, 2) = DropLastSegment(DropLastSegment(loc))
       /\ Ancestor(loc, Cardinality(SepPositions(loc))) = EMPTY

\* Up was pressed in a folder three segments deep and its parent was requested
C13_Witness ==
  /\ Cardinality(SepPositions(prefix)) = 3
  /\ inflight # << >>
  /\ Cardinality(SepPositions(inflight[Len(inflight)])) = 2
  /\ inflight[Len(inflight)] = SubSeq(prefix, 1, Len(inflight[Len(inflight)]))

\* C14: Up at root, and Default when the current Location is the default
\* Location, do nothing: no such step can be taken, so no request starts and
\* no state changes.
C14_UpAtRootAndDefaultAtDefaultDisabled ==
  route = "docs" =>
    /\ prefix = EMPTY => ~ENABLED onUp
    /\ prefix = defaultPrefixPref => ~ENABLED gotoDefault

\* Docs shows the saved, non-root default folder and a request may be started
C14_Witness ==
  /\ route = "docs" /\ prefix # EMPTY /\ prefix = defaultPrefixPref
  /\ Outstanding < cap /\ ~loading

\* a folder marker: a key ending with the separator, of size 0
IsMarker(e) == EndsWith(e.key, <<SEP>>) /\ e.size = 0

\* the entry e of a response is among the files fs (surrounding white space
\* of keys set aside)
Appears(e, fs) ==
  \E k \in 1..Len(fs) : Trim(fs[k].key) = Trim(e.key) /\ fs[k].size = e.size

\* C15: of the entries of a listing response, those whose key ends with the
\* separator and whose size is 0 are not among the files returned and
\* displayed; every other entry is.
C15_OnlyFolderMarkersDropped ==
  [][\A i \in 1..cap : LoadOk(i) =>
       \A j \in 1..Len(S3List(inflight[i]).contents) :
         Appears(S3List(inflight[i]).contents[j], files')
           <=> ~IsMarker(S3List(inflight[i]).contents[j])]_vars

Reverse(l) == [i \in 1..Len(l) |-> l[Len(l) + 1 - i]]

\* the place of a file in the stored files
PlaceOf(f) == CHOOSE i \in 1..Len(files) : files[i].key = f.key

\* two of the filtered files compare equal under the sort key
HasTies(key) ==
  \E i, j \in 1..Len(FilteredFiles) :
    i # j /\ FileCmpBy(key, "asc", FilteredFiles[i], FilteredFiles[j]) = 0

\* files that compare equal are in the order of the stored files
TiesInListingOrder(key, l) ==
  \A i, j \in 1..Len(l) :
    (i < j /\ FileCmpBy(key, "asc", l[i], l[j]) = 0) => PlaceOf(l[i]) < PlaceOf(l[j])

C17_MissingDateSortsAsEpoch ==
  (route = "docs" /\ sortKey = "date" /\ sortDir = "asc") =>
    \A i, j \in 1..Len(sortedFilteredFiles) :
      i < j => sortedFilteredFiles[i].lastModified <= sortedFilteredFiles[j].lastModified

\* C18: the view projection has no hidden state.  filteredFolders,
\* sortedFilteredFiles and pagedFiles are computed from copies (map, filter,
\* then sort), so a step that changes the stored folders, the stored files
\* (order included) or the Location is never a change of the filter text, the
\* sort key, the sort direction or the page number, and such a change touches
\* nothing but the view state.
C18_ProjectionLeavesStoredListing ==
  [][/\ <<prefix, folders, files>>' # <<prefix, folders, files>> => ~ViewControl
     /\ viewVars' # viewVars =>
          (ViewControl => UNCHANGED <<prefix, folders, files, loading, err,
                                      knownPrefixes, reqVars, chatVars, drawerVars, lsVars>>)]_vars

\* a filtered, date-descending view is shown over a stored listing of three
\* files that is still in the order the bucket returned it
C18_Witness ==
  /\ route = "docs"
  /\ sortKey = "date"
  /\ sortDir = "desc"
  /\ filter # EMPTY
  /\ Len(files) = 3
  /\ files = Listing(prefix).files
  /\ Len(sortedFilteredFiles) = 2

\* every fragment the citation records of a list give rise to
FragmentsOfAll(cites) == UNION {Range(Fragments(cites[i])) : i \in 1..Len(cites)}

\* C19: after every step, the highlight fragments in use come from the
\* citation records of the one answer whose source link opened the preview,
\* they are empty when the preview is closed, and a step that asks a new
\* question leaves no fragment in use.
C19_HighlightsOfPreviewedAnswerOnly ==
  [][/\ selectedPdf' # Closed =>
          Range(HighlightsOf(selectedPdf', chatHistory')) \subseteq FragmentsOfAll(previewed')
     /\ selectedPdf' = Closed => HighlightsOf(selectedPdf', chatHistory') = << >>
     /\ (SendInput \/ handleFaqClick \/ SendSuggestion) =>
          HighlightsOf(selectedPdf', chatHistory') = << >>]_vars

\* C20: while a document is open in the preview, every highlight fragment in
\* use is a fragment of some citation record whose url and page are those of
\* the open document; so after another document is opened no fragment that
\* only records of the earlier document give is in use.
C20_HighlightsOfOpenDocumentOnly ==
  selectedPdf # Closed =>
    \A h \in Range(pdfHighlights) :
      \E c \in Range(AllSources(chatHistory)) :
        /\ c.url = selectedPdf.url
        /\ c.page = selectedPdf.page
        /\ h \in Range(Fragments(c))

\* the words of a normalized text: its maximal runs without a space
WordList(normalized) == FilterNonEmpty(Split(normalized, SPACE))

WordsOf(normalized) == Range(WordList(normalized))

\* the matching policy of the Span Matcher for one fragment: equal after
\* normalization, or the fragment has several words and every word of the
\* text is one of them
PolicyMatch(text, fragment) ==
  LET nt == normalizeText(text)
      nf == normalizeText(fragment)
  IN  \/ nt = nf
      \/ Len(WordList(nf)) > 1 /\ WordsOf(nt) \subseteq WordsOf(nf)

PolicyMarks(text, fragments) == \E f \in Range(fragments) : PolicyMatch(text, f)

\* C21 as stated: every rendered text item is marked exactly when some
\* fragment in use matches it under the matching policy.
C21_MarkedIffPolicyMatch ==
  rendered.done => (rendered.marked <=> PolicyMarks(rendered.str, rendered.highlights))

\* C21 amended: a text item with at least one word after normalization is
\* marked exactly when some fragment in use matches it under the matching
\* policy; an item without any word (blank or punctuation only) is marked
\* exactly when it is not empty and some fragment has no word either.
C21_MarkedIffPolicyMatchOnWords ==
  rendered.done =>
    IF WordsOf(normalizeText(rendered.str)) # {}
      THEN rendered.marked <=> PolicyMarks(rendered.str, rendered.highlights)
      ELSE rendered.marked <=>
             /\ rendered.str # EMPTY
             /\ \E f \in Range(rendered.highlights) : normalizeText(f) = EMPTY

\* a one-word item was marked by a fragment of two words that it is not
\* equal to
C21_Witness ==
  /\ rendered.done
  /\ rendered.marked
  /\ Len(WordList(normalizeText(rendered.str))) = 1
  /\ \A f \in Range(rendered.highlights) : normalizeText(f) # normalizeText(rendered.str)
  /\ \E f \in Range(rendered.highlights) : Len(WordList(normalizeText(f))) = 2

\* a fragment must be longer than this: filter(h => h && h.length > 3)
MinFragment == 3

\* the windows of n consecutive words of a highlight text, normalized
Windows(text, n) ==
  LET words == FilterNonEmpty(SplitWs(text))
  IN  {normalizeText(Join(SubSeq(words, i, i + n - 1), SPACE)) : i \in 1..(Len(words) - n + 1)}

\* C22: for every citation record in the history, the extractor's output
\* holds, after normalization, every window of 2 and of 3 consecutive words
\* and every single word longer than 3 characters, as far as they exceed the
\* minimum fragment length, and holds no fragment that does not exceed it.
C22_ExtractorWindowsAndMinimum ==
  \A c \in Range(AllSources(chatHistory)) :
    ~NoHighlight(c) =>
      LET out == {normalizeText(f) : f \in Range(Fragments(c))}
          str == highlightStr(c)
      IN  /\ \A w \in Windows(str, 2) \cup Windows(str, 3) \cup Windows(str, 1) :
               Len(w) > MinFragment => w \in out
          /\ \A f \in out : Len(f) > MinFragment

\* C23: a step in which the answer retrieval of a question fails, by an
\* error event of the stream or by an error of the connection, appends an
\* assistant-role error message to the conversation and leaves no temporary
\* status bubble.  (Sending a further question is guarded by nothing but
\* the text being non-blank, so the conversation stays usable.)
C23_FailureAppendsErrorMessage ==
  [][(StreamError \/ StreamFail) =>
       /\ chatHistory' = Append(WithoutTemp(chatHistory),
                                Msg("assistant", <<"x", "x">>, << >>, << >>))
       /\ \A i \in 1..Len(chatHistory') : chatHistory'[i].role # "assistant_temp"]_vars

\* C24: a response with success status whose body holds no listing structure
\* sets the error message, instead of showing a loaded, empty listing.
C24_UnparsedBodyIsError ==
  [][\A i \in 1..cap : LoadUnparsed(i) => err' # ""]_vars

\* C25: every navigation action sets loading and clears the error message;
\* the response to a request clears loading and, if it is a failure, sets the
\* error message; and the successful response to the latest action, such as
\* one repeated from the Error state, leaves the Navigator loaded with the
\* error message empty.
C25_NavigationLoadsAndRecovers ==
  [][/\ Navigate => (loading' /\ err' = "")
     /\ \A i \in 1..cap :
          /\ (LoadOk(i) \/ LoadFail(i)) => ~loading'
          /\ LoadFail(i) => err' = ErrMsg
          /\ (Latest(i) /\ LoadOk(i)) => (err' = "" /\ prefix' = latestPfx)]_vars

\* C26: a successful load displays the folders and files of its one listing
\* response together with its Location and persists that Location as the
\* last-folder value; while the Navigator stays mounted no other step changes
\* the displayed folders, files and Location or makes the last-folder value
\* differ from the displayed Location, so in every state after a successful
\* load they agree; and a failed load changes none of Location, last-folder
\* value and KnownPrefixSet.
C26_DisplayedListingIsOneResponse ==
  [][/\ \A i \in 1..cap :
          /\ LoadOk(i) =>
                /\ folders' = Listing(inflight[i]).folders
                /\ files' = Listing(inflight[i]).files
                /\ prefix' = inflight[i]
                /\ lsLastPrefix' = inflight[i]
          /\ LoadFail(i) => UNCHANGED <<prefix, lsLastPrefix, lsKnown>>
     /\ (route = "docs" /\ route' = "docs"
           /\ <<folders, files, prefix, lsLastPrefix>>' # <<folders, files, prefix, lsLastPrefix>>
           /\ ~(\E i \in 1..cap : LoadOk(i)))
          => /\ UNCHANGED <<folders, files, prefix>>
             /\ lsLastPrefix = prefix => lsLastPrefix' = prefix']_vars

\* C27: while the Navigator is mounted, the loading indicator is true exactly
\* when at least one of its listing requests is outstanding.
C27_LoadingIffOutstanding ==
  route = "docs" => (loading <=> inflight # << >>)

\* C28: whenever the drawer shows a summary or the 'no summary' error, it is
\* the answer to the summary request of the file that is open.
C28_SummaryOfOpenDocument ==
  (route = "docs" /\ drawerFile # NoFile /\ ~drawerLoading
     /\ (drawerError # "" \/ drawerSummary # EMPTY))
    => drawerFrom = drawerFile.key

TempCount ==
  Cardinality({i \in 1..Len(chatHistory) : chatHistory[i].role = "assistant_temp"})

\* C29: under every interleaving of the status, answer, error and failure
\* events of the open question streams, chatHistory holds at most one
\* assistant_temp message, and none when no stream is open any more.
C29_AtMostOneTempAndNoneAtRest ==
  /\ TempCount <= 1
  /\ streams = 0 => TempCount = 0

\* two questions were asked before either was answered, one stream has
\* delivered its final message and the other has reported a status since
C29_Witness ==
  /\ streams = 1
  /\ TempCount = 1
  /\ \E i \in 1..Len(chatHistory) - 3 :
       /\ chatHistory[i].role = "user"
       /\ chatHistory[i + 1].role = "user"
       /\ chatHistory[i + 2].role = "assistant"
       /\ chatHistory[i + 3].role = "assistant_temp"

\* the folder prefixes a listing of pfx shows: the leading segment of the
\* Location, of each grouped prefix, and of each file key with a separator
ObservedTops(pfx, fo, fi) ==
  (IF pfx # EMPTY THEN {TopSegment(pfx) \o <<SEP>>} ELSE {})
    \cup {TopSegment(fo[j]) \o <<SEP>> : j \in 1..Len(fo)}
    \cup {TopSegment(fi[j].key) \o <<SEP>> :
            j \in {k \in 1..Len(fi) : IndexOf(fi[k].key, <<SEP>>) > 0}}

\* C30: every entry a successful load adds to the known prefixes is the
\* prefix of an observed folder (leading segment of the Location, of a
\* grouped prefix, or of a file key that contains a separator); a file at
\* root, whose key has no separator, adds none.
C30_KnownEntriesAreObservedFolders ==
  [][\A i \in 1..cap :
       LoadOk(i) =>
         \A e \in Remembered(inflight[i], folders', files') :
           e \in ObservedTops(inflight[i], folders', files')]_vars

====
